---- MODULE Spec2Model ----
(***************************************************************************)
(* Model of the glTF asset-building pipeline of gltf-go:                   *)
(*   optimizeModel -> ToGltfDoc -> SerializeBinaryGlTF,                    *)
(* together with the material deduplicator addMaterial.                    *)
(*                                                                         *)
(* float32/float64 values are modelled as fixed-point integers counted in  *)
(* units of 1/One (One = 6400, so that 0.04, 0.85, 0.81, 1/128 and the     *)
(* pixel centres (2x+1)/64 are exact).  NaN and infinities are outside the *)
(* model.  The 4 bytes binary.Write emits for a float32 are modelled as    *)
(* the little-endian two's-complement bytes of its fixed-point value; the  *)
(* bytes of an int32 are exact.                                            *)
(***************************************************************************)
EXTENDS Integers, Sequences, FiniteSets, TLC

\* ------------------------------------------------------------------------
\* Bounds of the model
\* ------------------------------------------------------------------------
MaxMeshes == 2
MaxVerts == 2
MaxFaces == 1
MaxLow == 7

\* the fixed-point unit: the model value of the float 1.0
One == 64 * 100

\* variants of the sample data the inputs are drawn from
Variants == {1, 2}

\* ------------------------------------------------------------------------
\* Data model (part_001 782-837)
\* ------------------------------------------------------------------------
Vector2(u, v) == [U |-> u, V |-> v]
Vector3(x, y, z) == [X |-> x, Y |-> y, Z |-> z]
Vector4(r, g, b, a) == [R |-> r, G |-> g, B |-> b, A |-> a]
Vertex(c, p, n, uv) == [Color |-> c, Position |-> p, Normal |-> n, UV |-> uv]
Triangle(a, b, c) == [TriangleIndices |-> <<a, b, c>>]
Material(amb, dif, spc, pow, emi, opa) ==
    [AmbientColor |-> amb, DiffuseColor |-> dif, SpecularColor |-> spc,
     SpecularPower |-> pow, EmissiveColor |-> emi, Opacity |-> opa]
Geometry(vs, fs, m) == [Vertices |-> vs, Faces |-> fs, Material |-> m]
Model(ms) == [Meshes |-> ms]

\* ------------------------------------------------------------------------
\* The inputs: sample vertices, triangles and materials.  Components range
\* over values inside and outside [0,1] and on both sides of +-100; triangle
\* indices are non-negative and may or may not be below the vertex count.
\* ------------------------------------------------------------------------
SampleVertex(a, j) ==
    IF a = 1
    THEN Vertex(Vector4(IF j % 2 = 1 THEN One ELSE 0, 0, One \div 2, One),
                Vector3((j - 1) * One, 0, (0 - j) * One),
                Vector3(0, 0, One),
                Vector2(0, 0))
    ELSE Vertex(Vector4(2 * One, One, 0 - One, One \div 2),
                Vector3(150 * j * One, (0 - 150) * One, 100 * One),
                Vector3(One, 0, 0),
                Vector2(0, 0))

SampleTriangle(a, j) ==
    IF a = 1 THEN Triangle(0, 1, (j - 1) % 2) ELSE Triangle(j - 1, 0, 0)

SampleMaterial(a) ==
    IF a = 1
    THEN Material(<<One, 0, 0>>, <<One, 0, 0>>, <<0, 0, 0>>, 0, <<0, 0, 0>>, One)
    ELSE Material(<<0, 0, 0>>, <<0, One \div 2, One>>, <<0, 0, 0>>, 64 * One,
                  <<0, 0, 0>>, One \div 2)

SampleMesh(a, nv, nf) ==
    Geometry([j \in 1..nv |-> SampleVertex(a, j)],
             [j \in 1..nf |-> SampleTriangle(a, j)],
             SampleMaterial(a))

MeshPool == {SampleMesh(a, nv, nf) : a \in Variants, nv \in 0..MaxVerts, nf \in 0..MaxFaces}

SeqsUpTo(S, n) == UNION {[1..k -> S] : k \in 0..n}

ModelPool == {Model(ms) : ms \in SeqsUpTo(MeshPool, MaxMeshes)}

\* ------------------------------------------------------------------------
\* Numeric helpers
\* ------------------------------------------------------------------------
\* Go's int32 addition wraps around silently.  (Written without forming a
\* value outside the 32-bit range.)
Int32Add(a, b) ==
    IF a > 0 /\ b > 0 /\ b > 2147483647 - a
    THEN ((a - 2147483647) + (b - 2147483647)) - 2
    ELSE IF a < 0 /\ b < 0 /\ b < (0 - 2147483647) - 1 - a
         THEN ((a + 2147483647) + (b + 2147483647)) + 2
         ELSE a + b

\* math.Min written where math.Max was meant
MathMaxAsMin(a, b) == IF a <= b THEN a ELSE b

\* math.Max / math.Min on ordered values
MathMax(a, b) == IF a >= b THEN a ELSE b
MathMin(a, b) == IF a <= b THEN a ELSE b

\* the value written as a 16-bit integer: 2 bytes
LittleEndian16(v) == <<v % 256, (v \div 256) % 256>>

\* binary.Write(outBuf, binary.LittleEndian, v) for a 32-bit v: 4 bytes,
\* least significant first
LittleEndian32(v) ==
    <<v % 256, (v \div 256) % 256, (v \div 65536) % 256, (v \div 16777216) % 256>>

\* mapRange: the affine color remapper
mapRange(x, inMin, inMax, outMin, outMax) ==
    ((x - inMin) * (outMax - outMin)) \div (inMax - inMin) + outMin

\* the remap used everywhere: [0,1] -> [0.04, 0.85]
Remap(x) == mapRange(x, 0, One, (4 * One) \div 100, (85 * One) \div 100)

\* ------------------------------------------------------------------------
\* Typed Buffer Packer: the add*ArrayToBuffer functions.  Each returns the
\* buffer after the writes and the observed minimum and maximum.  Triangle
\* indices of the model are non-negative, where uint32(float64(i)) is i; the
\* index bounds are plain integers, the vector bounds fixed-point values.
\* ------------------------------------------------------------------------
RECURSIVE TriangleLoop(_, _, _, _, _)
TriangleLoop(indices, k, buf, min, max) ==
    IF k > Len(indices) THEN [buf |-> buf, min |-> min, max |-> max]
    ELSE LET t == indices[k].TriangleIndices
             b == buf \o LittleEndian32(t[1]) \o LittleEndian32(t[2]) \o LittleEndian32(t[3])
             mx == MathMax(MathMax(MathMax(max, t[1]), t[2]), t[3])
             mn == MathMin(MathMin(MathMin(min, t[1]), t[2]), t[3])
         IN  TriangleLoop(indices, k + 1, b, mn, mx)

addTriangleArrayToBuffer(outBuf, indices) ==
    TriangleLoop(indices, 1, outBuf, 100, 0)

\* one loop of add VectorN ArrayToBuffer: data is a sequence of component
\* tuples; min and max are folded per component
RECURSIVE VectorLoop(_, _, _, _, _)
VectorLoop(data, k, buf, min, max) ==
    IF k > Len(data) THEN [buf |-> buf, min |-> min, max |-> max]
    ELSE LET v == data[k]
             RECURSIVE Bytes(_)
             Bytes(i) == IF i > Len(v) THEN <<>> ELSE LittleEndian32(v[i]) \o Bytes(i + 1)
         IN  VectorLoop(data, k + 1, buf \o Bytes(1),
                        [i \in 1..Len(v) |-> MathMin(min[i], v[i])],
                        [i \in 1..Len(v) |-> MathMax(max[i], v[i])])

addVector2ArrayToBuffer(outBuf, data) ==
    VectorLoop([k \in 1..Len(data) |-> <<data[k].U, data[k].V>>], 1, outBuf,
               <<100 * One, 100 * One>>, <<(0 - 100) * One, (0 - 100) * One>>)

\* the packer with seeds of +-1000 instead of +-100
addVector3ArrayToBufferWideSeeds(outBuf, data) ==
    VectorLoop([k \in 1..Len(data) |-> <<data[k].X, data[k].Y, data[k].Z>>], 1, outBuf,
               <<1000 * One, 1000 * One, 1000 * One>>,
               <<(0 - 1000) * One, (0 - 1000) * One, (0 - 1000) * One>>)

addVector3ArrayToBuffer(outBuf, data) ==
    VectorLoop([k \in 1..Len(data) |-> <<data[k].X, data[k].Y, data[k].Z>>], 1, outBuf,
               <<100 * One, 100 * One, 100 * One>>,
               <<(0 - 100) * One, (0 - 100) * One, (0 - 100) * One>>)

addVector4ArrayToBuffer(outBuf, data) ==
    VectorLoop([k \in 1..Len(data) |-> <<data[k].R, data[k].G, data[k].B, data[k].A>>],
               1, outBuf,
               <<100 * One, 100 * One, 100 * One, 100 * One>>,
               <<(0 - 100) * One, (0 - 100) * One, (0 - 100) * One, (0 - 100) * One>>)

\* ------------------------------------------------------------------------
\* getAccessorIndexFrom*: pack, then append one BufferView and one Accessor.
\* st is the triple the caller passes by pointer:
\*   [outBuf, gltfBufferViews, gltfAccessors];
\* the result is that triple after the call plus the returned accessorIndex
\* (0-based, as in the source).
\* ------------------------------------------------------------------------
BufferView(off, len, stride, target) ==
    [Buffer |-> 0, ByteOffset |-> off, ByteLength |-> len, ByteStride |-> stride,
     Target |-> target]

Accessor(bv, ctype, count, type, max, min) ==
    [BufferView |-> bv, ByteOffset |-> 0, ComponentType |-> ctype, Count |-> count,
     Type |-> type, Max |-> max, Min |-> min]

\* byteLength taken as the buffer length after the write, not the difference
AppendViewWholeBuffer(st, r, stride, target, ctype, count, type) ==
    LET byteOffset == Len(st.outBuf)
        byteLength == Len(r.buf)
        views == Append(st.gltfBufferViews, BufferView(byteOffset, byteLength, stride, target))
        accs == Append(st.gltfAccessors,
                       Accessor(Len(views) - 1, ctype, count, type, r.max, r.min))
    IN  [outBuf |-> r.buf, gltfBufferViews |-> views, gltfAccessors |-> accs,
         accessorIndex |-> Len(accs) - 1]

\* the tail appending nothing when the array was empty
AppendViewSkipEmpty(st, r, stride, target, ctype, count, type) ==
    LET byteOffset == Len(st.outBuf)
        byteLength == Len(r.buf) - byteOffset
        views == Append(st.gltfBufferViews, BufferView(byteOffset, byteLength, stride, target))
        accs == Append(st.gltfAccessors,
                       Accessor(Len(views) - 1, ctype, count, type, r.max, r.min))
    IN  IF count = 0
        THEN [outBuf |-> r.buf, gltfBufferViews |-> st.gltfBufferViews,
              gltfAccessors |-> st.gltfAccessors, accessorIndex |-> Len(st.gltfAccessors) - 1]
        ELSE [outBuf |-> r.buf, gltfBufferViews |-> views, gltfAccessors |-> accs,
              accessorIndex |-> Len(accs) - 1]

\* the common tail of the four functions, given the result r of the add call
AppendViewAndAccessor(st, r, stride, target, ctype, count, type) ==
    LET byteOffset == Len(st.outBuf)
        byteLength == Len(r.buf) - byteOffset
        views == Append(st.gltfBufferViews, BufferView(byteOffset, byteLength, stride, target))
        accs == Append(st.gltfAccessors,
                       Accessor(Len(views) - 1, ctype, count, type, r.max, r.min))
    IN  [outBuf |-> r.buf, gltfBufferViews |-> views, gltfAccessors |-> accs,
         accessorIndex |-> Len(accs) - 1]

getAccessorIndexFromVector2(st, vectors) ==
    AppendViewAndAccessor(st, addVector2ArrayToBuffer(st.outBuf, vectors),
                          8, 34962, 5126, Len(vectors), "VEC2")

getAccessorIndexFromVector3(st, vectors) ==
    AppendViewAndAccessor(st, addVector3ArrayToBuffer(st.outBuf, vectors),
                          12, 34962, 5126, Len(vectors), "VEC3")

getAccessorIndexFromVector4(st, vectors) ==
    AppendViewAndAccessor(st, addVector4ArrayToBuffer(st.outBuf, vectors),
                          16, 34962, 5126, Len(vectors), "VEC4")

getAccessorIndexFromIndices(st, indices) ==
    LET r == addTriangleArrayToBuffer(st.outBuf, indices)
    IN  AppendViewAndAccessor(st, [buf |-> r.buf, min |-> <<r.min>>, max |-> <<r.max>>],
                              0, 34963, 5125, Len(indices) * 3, "SCALAR")

getVertices(mesh) == [k \in 1..Len(mesh.Vertices) |-> mesh.Vertices[k].Position]
getNormals(mesh) == [k \in 1..Len(mesh.Vertices) |-> mesh.Vertices[k].Normal]
getUVCoords(mesh) == [k \in 1..Len(mesh.Vertices) |-> mesh.Vertices[k].UV]
getVertexColors(mesh) == [k \in 1..Len(mesh.Vertices) |-> mesh.Vertices[k].Color]

\* ------------------------------------------------------------------------
\* Material Deduplicator
\* ------------------------------------------------------------------------
\* a nil interface / nil map is the empty set; the map {"index": 0} is the
\* set of its key-value pairs; a nil AlphaMode is the empty string
NilTexture == {}
IndexTexture == {<<"index", 0>>}

GltfMaterial(alpha, factor, texture, metallic, roughness) ==
    [AlphaMode |-> alpha, DoubleSided |-> TRUE,
     PbrMetallicRoughness |->
        [BaseColorFactor |-> factor, BaseColorTexture |-> texture,
         MetallicFactor |-> metallic, RoughnessFactor |-> roughness]]

\* the comparison without the roughness factor
areMaterialsEqualNoRoughness(a, b) ==
    /\ a.PbrMetallicRoughness.BaseColorFactor = b.PbrMetallicRoughness.BaseColorFactor
    /\ a.PbrMetallicRoughness.MetallicFactor = b.PbrMetallicRoughness.MetallicFactor

areMaterialsEqual(a, b) ==
    LET pa == a.PbrMetallicRoughness
        pb == b.PbrMetallicRoughness
        sameR == pa.BaseColorFactor[1] = pb.BaseColorFactor[1]
        sameG == pa.BaseColorFactor[2] = pb.BaseColorFactor[2]
        sameB == pa.BaseColorFactor[3] = pb.BaseColorFactor[3]
        sameA == pa.BaseColorFactor[4] = pb.BaseColorFactor[4]
        sameMe == pa.MetallicFactor = pb.MetallicFactor
        sameRo == pa.RoughnessFactor = pb.RoughnessFactor
    IN  sameR /\ sameG /\ sameB /\ sameA /\ sameMe /\ sameRo

\* the scan of addMaterial: the 0-based index of the first equal entry at or
\* after position k, or -1
RECURSIVE FirstEqual(_, _, _)
FirstEqual(material, list, k) ==
    IF k > Len(list) THEN -1
    ELSE IF areMaterialsEqual(list[k], material) THEN k - 1
         ELSE FirstEqual(material, list, k + 1)

addMaterial(material, list) ==
    LET i == FirstEqual(material, list, 1)
    IN  IF i >= 0
        THEN [materialIndex |-> i, newMaterials |-> list]
        ELSE [materialIndex |-> Len(list), newMaterials |-> Append(list, material)]

gltfMaterial(material) ==
    GltfMaterial(IF material.Opacity < One THEN "BLEND" ELSE "",
                 <<material.DiffuseColor[1], material.DiffuseColor[2],
                   material.DiffuseColor[3], material.Opacity>>,
                 NilTexture,
                 0,
                 One - (material.SpecularPower \div 128))

\* ------------------------------------------------------------------------
\* Mesh Consolidator: optimizeModel
\* ------------------------------------------------------------------------
\* the triangles copied without the offset
OffsetFacesUnshifted(faces, vertexOffset) == faces

\* the triangles of one source mesh, re-indexed by vertexOffset
OffsetFaces(faces, vertexOffset) ==
    [j \in 1..Len(faces) |->
        Triangle(Int32Add(faces[j].TriangleIndices[1], vertexOffset),
                 Int32Add(faces[j].TriangleIndices[2], vertexOffset),
                 Int32Add(faces[j].TriangleIndices[3], vertexOffset))]

\* uint8(f * 255) for a fixed-point f in [0,1]
Uint8Of255(f) == (f * 255) \div One

\* img.Set(x, y, c) on the 32x32 raster; img is the set of written pixels.
\* A point outside the rectangle is ignored.
ImgSet(img, x, y, c) ==
    IF x >= 0 /\ x < 32 /\ y >= 0 /\ y < 32
    THEN {p \in img : ~(p.x = x /\ p.y = y)} \cup {[x |-> x, y |-> y, c |-> c]}
    ELSE img

\* png.Encode: an opaque encoder; the bytes are represented by the raster
PngEncode(img) == <<img>>

\* the UV set to the corner of the pixel instead of its centre
AtlasVerticesCorner(vertices, i) ==
    LET x == i % 32
        y == i \div 32
    IN  [j \in 1..Len(vertices) |->
            [vertices[j] EXCEPT !.UV = Vector2((x * One) \div 32, (y * One) \div 32)]]

\* the vertices of source mesh number i (0-based), as appended in atlas mode
AtlasVertices(vertices, i) ==
    LET x == i % 32
        y == i \div 32
    IN  [j \in 1..Len(vertices) |->
            [vertices[j] EXCEPT !.UV = Vector2((x * One) \div 32 + (One \div 2) \div 32,
                                               (y * One) \div 32 + (One \div 2) \div 32)]]

\* the pixel written for source mesh number i (0-based)
AtlasPixel(img, mesh, i) ==
    LET dR == Remap(mesh.Material.DiffuseColor[1])
        dG == Remap(mesh.Material.DiffuseColor[2])
        dB == Remap(mesh.Material.DiffuseColor[3])
    IN  ImgSet(img, i % 32, i \div 32,
               <<Uint8Of255(dR), Uint8Of255(dG), Uint8Of255(dB),
                 Uint8Of255(mesh.Material.Opacity)>>)

\* the vertex-color loop remapping the alpha channel as well
ColorVerticesWithAlpha(vertices) ==
    [j \in 1..Len(vertices) |->
        [vertices[j] EXCEPT !.Color.R = Remap(@), !.Color.G = Remap(@),
                            !.Color.B = Remap(@), !.Color.A = Remap(@)]]

\* the vertices of a source mesh, as appended in vertex-color mode
ColorVertices(vertices) ==
    [j \in 1..Len(vertices) |->
        [vertices[j] EXCEPT !.Color.R = Remap(@), !.Color.G = Remap(@),
                            !.Color.B = Remap(@)]]

\* the loops with the vertices assigned instead of appended
RECURSIVE ConsolidateLoopAssign(_, _, _, _, _, _)
ConsolidateLoopAssign(ms, k, vc, finalVertices, finalFaces, img) ==
    IF k > Len(ms)
    THEN [finalVertices |-> finalVertices, finalFaces |-> finalFaces, img |-> img]
    ELSE LET mesh == ms[k]
             vertexOffset == Len(finalVertices)
         IN  ConsolidateLoopAssign(ms, k + 1, vc,
                 IF vc THEN ColorVertices(mesh.Vertices)
                       ELSE AtlasVertices(mesh.Vertices, k - 1),
                 finalFaces \o OffsetFaces(mesh.Faces, vertexOffset),
                 IF vc THEN img ELSE AtlasPixel(img, mesh, k - 1))

\* both loops of optimizeModel, from source mesh at position k on
RECURSIVE ConsolidateLoop(_, _, _, _, _, _)
ConsolidateLoop(ms, k, vc, finalVertices, finalFaces, img) ==
    IF k > Len(ms)
    THEN [finalVertices |-> finalVertices, finalFaces |-> finalFaces, img |-> img]
    ELSE LET mesh == ms[k]
             vertexOffset == Len(finalVertices)
         IN  ConsolidateLoop(ms, k + 1, vc,
                 finalVertices \o (IF vc THEN ColorVertices(mesh.Vertices)
                                   ELSE AtlasVertices(mesh.Vertices, k - 1)),
                 finalFaces \o OffsetFaces(mesh.Faces, vertexOffset),
                 IF vc THEN img ELSE AtlasPixel(img, mesh, k - 1))

PlaceholderMaterial ==
    Material(<<One, One, One>>, <<One, One, One>>, <<One, One, One>>, 128 * One,
             <<One, One, One>>, One)

\* optimizeModel returning a Model without meshes when it is given none
optimizeModelSkipEmpty(input, vc) ==
    LET r == ConsolidateLoop(input.Meshes, 1, vc, <<>>, <<>>, {})
    IN  IF input.Meshes = <<>>
        THEN [model |-> Model(<<>>), atlas |-> IF vc THEN <<>> ELSE PngEncode({})]
        ELSE [model |-> Model(<<Geometry(r.finalVertices, r.finalFaces,
                                         PlaceholderMaterial)>>),
              atlas |-> IF vc THEN <<>> ELSE PngEncode(r.img)]

\* optimizeModel giving the consolidated mesh the Material of the first source
\* mesh
optimizeModelKeepMaterial(input, vc) ==
    LET r == ConsolidateLoop(input.Meshes, 1, vc, <<>>, <<>>, {})
    IN  [model |-> Model(<<Geometry(r.finalVertices, r.finalFaces,
                                    IF input.Meshes = <<>> THEN PlaceholderMaterial
                                    ELSE input.Meshes[1].Material)>>),
         atlas |-> IF vc THEN <<>> ELSE PngEncode(r.img)]

\* optimizeModel(meshes) under the global flag vc: the consolidated Model and
\* the atlas buffer (empty in vertex-color mode)
optimizeModel(input, vc) ==
    LET r == ConsolidateLoop(input.Meshes, 1, vc, <<>>, <<>>, {})
    IN  [model |-> Model(<<Geometry(r.finalVertices, r.finalFaces, PlaceholderMaterial)>>),
         atlas |-> IF vc THEN <<>> ELSE PngEncode(r.img)]

\* ------------------------------------------------------------------------
\* Document Assembler: ToGltfDoc
\* ------------------------------------------------------------------------
\* the iteration without the overwrite of the base color factor
MeshIterationKeepFactor(st, mats, mesh, vc) ==
    LET thisMaterial0 == gltfMaterial(mesh.Material)
        s1 == getAccessorIndexFromIndices(st, mesh.Faces)
        s2 == getAccessorIndexFromVector3(s1, getVertices(mesh))
        s3 == getAccessorIndexFromVector3(s2, getNormals(mesh))
        s4 == IF ~vc THEN getAccessorIndexFromVector2(s3, getUVCoords(mesh))
                     ELSE getAccessorIndexFromVector4(s3, getVertexColors(mesh))
        thisMaterial ==
            [thisMaterial0 EXCEPT
                !.PbrMetallicRoughness.BaseColorTexture =
                    IF ~vc THEN IndexTexture ELSE NilTexture]
        am == addMaterial(thisMaterial, mats)
    IN  [outBuf |-> s4.outBuf,
         gltfBufferViews |-> s4.gltfBufferViews,
         gltfAccessors |-> s4.gltfAccessors,
         gltfMaterials |-> am.newMaterials,
         assoc |-> [MeshIndicesAccessorIndex |-> s1.accessorIndex,
                    MeshMaterialIndex |-> am.materialIndex,
                    MeshNormalsAccessorIndex |-> s3.accessorIndex,
                    MeshVerticesAccessorIndex |-> s2.accessorIndex,
                    MeshUVAccessorIndex |-> IF ~vc THEN s4.accessorIndex ELSE 0,
                    MeshVertexColorAccessorIndex |-> IF ~vc THEN 0 ELSE s4.accessorIndex],
         misaligned |-> Len(s4.outBuf) % 4 # 0]

\* one iteration of the per-mesh loop, on the locals
\*   st = [outBuf, gltfBufferViews, gltfAccessors], mats = gltfMaterials
MeshIteration(st, mats, mesh, vc) ==
    LET thisMaterial0 == gltfMaterial(mesh.Material)
        s1 == getAccessorIndexFromIndices(st, mesh.Faces)
        s2 == getAccessorIndexFromVector3(s1, getVertices(mesh))
        s3 == getAccessorIndexFromVector3(s2, getNormals(mesh))
        s4 == IF ~vc THEN getAccessorIndexFromVector2(s3, getUVCoords(mesh))
                     ELSE getAccessorIndexFromVector4(s3, getVertexColors(mesh))
        thisMaterial ==
            [thisMaterial0 EXCEPT
                !.PbrMetallicRoughness.BaseColorTexture =
                    IF ~vc THEN IndexTexture ELSE NilTexture,
                !.PbrMetallicRoughness.BaseColorFactor = <<One, One, One, One>>]
        am == addMaterial(thisMaterial, mats)
    IN  [outBuf |-> s4.outBuf,
         gltfBufferViews |-> s4.gltfBufferViews,
         gltfAccessors |-> s4.gltfAccessors,
         gltfMaterials |-> am.newMaterials,
         assoc |-> [MeshIndicesAccessorIndex |-> s1.accessorIndex,
                    MeshMaterialIndex |-> am.materialIndex,
                    MeshNormalsAccessorIndex |-> s3.accessorIndex,
                    MeshVerticesAccessorIndex |-> s2.accessorIndex,
                    MeshUVAccessorIndex |-> IF ~vc THEN s4.accessorIndex ELSE 0,
                    MeshVertexColorAccessorIndex |-> IF ~vc THEN 0 ELSE s4.accessorIndex],
         misaligned |-> Len(s4.outBuf) % 4 # 0]

\* the primitive with both the UV and the color attribute
MeshPrimitiveBothAttributes(assoc, vc) ==
    [Attributes |->
        ("POSITION" :> assoc.MeshVerticesAccessorIndex) @@
        ("NORMAL" :> assoc.MeshNormalsAccessorIndex) @@
        ("TEXCOORD_0" :> assoc.MeshUVAccessorIndex) @@
        ("COLOR_0" :> assoc.MeshVertexColorAccessorIndex),
     Indices |-> assoc.MeshIndicesAccessorIndex,
     Material |-> assoc.MeshMaterialIndex]

\* the primitive built from one association
MeshPrimitive(assoc, vc) ==
    [Attributes |->
        ("POSITION" :> assoc.MeshVerticesAccessorIndex) @@
        ("NORMAL" :> assoc.MeshNormalsAccessorIndex) @@
        (IF ~vc THEN "TEXCOORD_0" :> assoc.MeshUVAccessorIndex
                ELSE "COLOR_0" :> assoc.MeshVertexColorAccessorIndex),
     Indices |-> assoc.MeshIndicesAccessorIndex,
     Material |-> assoc.MeshMaterialIndex]

\* the buffer of the document; URI is the empty string (no characters) until
\* an embedded serialization
GltfBuffer(bytes) == [ByteLength |-> Len(bytes), Bytes |-> bytes, URI |-> <<>>]

\* the part of ToGltfDoc after the per-mesh loop
AssembleDoc(buf, views, accs, mats, assocs, atlasBuf, vc) ==
    LET meshPrimitives == [j \in 1..Len(assocs) |-> MeshPrimitive(assocs[j], vc)]
        gltfMeshes == <<[Name |-> "", Primitives |-> meshPrimitives]>>
        gltfNodes == <<[Name |-> "", Mesh |-> Len(gltfMeshes) - 1]>>
        nodeList == <<Len(gltfNodes) - 1>>
        gltfScenes == <<[Nodes |-> nodeList]>>
    IN  [Accessors |-> accs,
         Buffers |-> <<GltfBuffer(buf)>>,
         BufferViews |-> views,
         Materials |-> mats,
         Meshes |-> gltfMeshes,
         Nodes |-> gltfNodes,
         Scene |-> Len(gltfScenes) - 1,
         Scenes |-> gltfScenes,
         Images |-> IF ~vc THEN <<[URI |-> [mime |-> "image/png", data |-> atlasBuf]]>>
                           ELSE <<>>,
         Textures |-> IF ~vc THEN <<[Source |-> 0]>> ELSE <<>>]

\* ------------------------------------------------------------------------
\* Container Serializer: SerializeBinaryGlTF
\*
\* Lengths are naturals that may exceed 32 bits; they are kept as two limbs
\* [hi, lo] of base 65536 (value = hi * 65536 + lo), so that Go's uint32
\* conversion and uint32 arithmetic keep their width.
\* ------------------------------------------------------------------------
Len64(hi, lo) == [hi |-> hi, lo |-> lo]

ToLen64(n) == Len64(n \div 65536, n % 65536)

\* exact sum of two lengths
Add64(a, b) == Len64(a.hi + b.hi + (a.lo + b.lo) \div 65536, (a.lo + b.lo) % 65536)

\* uint32(x): the low 32 bits
Uint32(a) == Len64(a.hi % 65536, a.lo)

\* a + b in uint32 arithmetic
Uint32Add(a, b) == Uint32(Add64(a, b))

\* the padding without the final mask: 4 - (size & 3)
PaddingNoMask(size) == ToLen64(4 - (size.lo % 4))

\* (4 - (size & 3)) & 3 on a uint32
PaddingNeeded(size) == ToLen64((4 - (size.lo % 4)) % 4)

Segment(name, len, val) == [seg |-> name, len |-> len, val |-> val]

\* the bytes returned for a document whose JSON text has jsonLen bytes and
\* whose Buffers[0].Bytes has bufLen bytes: the sequence of writes to
\* outData, each with the number of bytes it writes and, for a 4-byte field,
\* the value written
SerializeBinaryGlTF(jsonLen, bufLen) ==
    LET four == ToLen64(4)
        outJSONSize0 == Uint32(jsonLen)
        outJSONPaddingNeeded == PaddingNeeded(outJSONSize0)
        outJSONSize == Uint32Add(outJSONSize0, outJSONPaddingNeeded)
        outBufSize0 == Uint32(bufLen)
        outBufNullsNeeded == PaddingNeeded(outBufSize0)
        outBufSize == Uint32Add(outBufSize0, outBufNullsNeeded)
        g1 == Uint32Add(ToLen64(0), four)
        g2 == Uint32Add(g1, four)
        g3 == Uint32Add(g2, four)
        g4 == Uint32Add(g3, four)
        g5 == Uint32Add(g4, four)
        g6 == Uint32Add(g5, outJSONSize)
        g7 == Uint32Add(g6, four)
        g8 == Uint32Add(g7, four)
        glbSize == Uint32Add(g8, outBufSize)
    IN  << Segment("magic", four, <<"glTF">>),
           Segment("version", four, <<ToLen64(2)>>),
           Segment("glbSize", four, <<glbSize>>),
           Segment("jsonSize", four, <<outJSONSize>>),
           Segment("jsonType", four, <<"JSON">>),
           Segment("json", jsonLen, <<>>),
           Segment("jsonPad", outJSONPaddingNeeded, <<>>),
           Segment("binSize", four, <<outBufSize>>),
           Segment("binType", four, <<"BIN0">>),
           Segment("bin", bufLen, <<>>),
           Segment("binPad", outBufNullsNeeded, <<>>) >>

\* ------------------------------------------------------------------------
\* Container Serializer on a document: what the two serializers emit for a
\* document and what they do to it.
\* ------------------------------------------------------------------------
\* base64.StdEncoding.EncodeToString: 3 bytes give 4 sextets; the padding
\* character '=' is the value 64
RECURSIVE Base64From(_, _)
Base64From(bytes, k) ==
    LET n == Len(bytes) - k + 1
    IN  IF n <= 0 THEN <<>>
        ELSE IF n = 1
             THEN <<bytes[k] \div 4, (bytes[k] % 4) * 16, 64, 64>>
             ELSE IF n = 2
                  THEN <<bytes[k] \div 4,
                         (bytes[k] % 4) * 16 + bytes[k + 1] \div 16,
                         (bytes[k + 1] % 16) * 4, 64>>
                  ELSE <<bytes[k] \div 4,
                         (bytes[k] % 4) * 16 + bytes[k + 1] \div 16,
                         (bytes[k + 1] % 16) * 4 + bytes[k + 2] \div 64,
                         bytes[k + 2] % 64>> \o Base64From(bytes, k + 3)

Base64(bytes) == Base64From(bytes, 1)

\* "data:application/gltf-buffer;base64," + base64 of the bytes
BufferDataURI(bytes) == <<"data:application/gltf-buffer;base64,">> \o Base64(bytes)

\* the members json.Marshal emits for a document: Bytes and BaseColorFactor
\* are tagged json:"-"; the JSON text is represented by this tree
JsonOf(doc) ==
    [Accessors |-> doc.Accessors,
     Buffers |-> [b \in 1..Len(doc.Buffers) |->
                    [ByteLength |-> doc.Buffers[b].ByteLength, URI |-> doc.Buffers[b].URI]],
     BufferViews |-> doc.BufferViews,
     Images |-> doc.Images,
     Materials |-> [m \in 1..Len(doc.Materials) |->
                      [AlphaMode |-> doc.Materials[m].AlphaMode,
                       DoubleSided |-> doc.Materials[m].DoubleSided,
                       BaseColorTexture |->
                           doc.Materials[m].PbrMetallicRoughness.BaseColorTexture,
                       MetallicFactor |-> doc.Materials[m].PbrMetallicRoughness.MetallicFactor,
                       RoughnessFactor |->
                           doc.Materials[m].PbrMetallicRoughness.RoughnessFactor]],
     Meshes |-> doc.Meshes,
     Nodes |-> doc.Nodes,
     Scene |-> doc.Scene,
     Scenes |-> doc.Scenes,
     Textures |-> doc.Textures]

\* SerializeBinaryGlTF(gltfDoc): the container is determined by its two
\* payloads, the JSON text of the document and the bytes of Buffers[0]
BinaryOf(doc) ==
    [form |-> "glb", json |-> JsonOf(doc), bin |-> doc.Buffers[1].Bytes]

\* SerializeEmbeddedGlTF(gltfDoc): gltfDoc is a copy of the caller's struct
\* whose Buffers slice shares its elements with the caller's, so the
\* assignment to gltfDoc.Buffers[0].URI is an assignment to the caller's
\* document.  doc is the caller's document after the call, out the indented
\* JSON text returned.
SerializeEmbeddedGlTF(doc) ==
    LET after == [doc EXCEPT !.Buffers[1].URI = BufferDataURI(doc.Buffers[1].Bytes)]
    IN  [doc |-> after, out |-> [form |-> "gltf", json |-> JsonOf(after), bin |-> <<>>]]

\* ------------------------------------------------------------------------
\* The pipeline as a state machine
\* ------------------------------------------------------------------------
VARIABLES
    vertexColors,     \* the global mode flag
    pc,               \* position of the single thread
    meshes,           \* the caller's source Model
    piped,            \* TRUE when ToGltfDoc is run on optimizeModel's result
    model,            \* the Model handed to ToGltfDoc
    atlas,            \* the atlas buffer handed to ToGltfDoc
    meshPos,          \* ToGltfDoc: position of the per-mesh loop (1-based)
    outBuf,           \* ToGltfDoc: the growing byte buffer
    gltfBufferViews,  \* ToGltfDoc / addMaterial locals
    gltfAccessors,
    gltfMaterials,
    associations,
    alignFault,       \* TRUE once " this should't happen. " was printed
    gltfDoc,          \* <<>> until ToGltfDoc returns, then <<document>>
    call,             \* addMaterial: the last call [material, materialIndex, before]
    serIn,            \* SerializeBinaryGlTF: [jsonLen, bufLen] of its argument
    outData,          \* SerializeBinaryGlTF: the bytes returned, as segments
    opt,              \* optimizeModel: the locals of its atlas loop, <<>> outside
    printed           \* the messages printed by printIf, in order

vars == <<vertexColors, pc, meshes, piped, model, atlas, meshPos, outBuf,
          gltfBufferViews, gltfAccessors, gltfMaterials, associations, alignFault,
          gltfDoc, call, serIn, outData, opt, printed>>

asmVars == <<meshPos, outBuf, gltfBufferViews, gltfAccessors, gltfMaterials,
             associations, alignFault>>
otherVars == <<call, serIn, outData, opt, printed>>

NoModel == Model(<<>>)

Init ==
    /\ vertexColors \in BOOLEAN
    /\ meshes \in ModelPool
    /\ pc = "start"
    /\ piped = FALSE
    /\ model = NoModel
    /\ atlas = <<>>
    /\ meshPos = 0
    /\ outBuf = <<>>
    /\ gltfBufferViews = <<>>
    /\ gltfAccessors = <<>>
    /\ gltfMaterials = <<>>
    /\ associations = <<>>
    /\ alignFault = FALSE
    /\ gltfDoc = <<>>
    /\ call = <<>>
    /\ serIn = <<>>
    /\ outData = <<>>
    /\ opt = <<>>
    /\ printed = <<>>

\* model, atlas := optimizeModel(meshes)
OptimizeModel ==
    /\ pc = "start"
    /\ LET r == optimizeModel(meshes, vertexColors)
       IN  /\ model' = r.model
           /\ atlas' = r.atlas
    /\ piped' = TRUE
    /\ pc' = "optimized"
    /\ UNCHANGED <<vertexColors, meshes, gltfDoc>>
    /\ UNCHANGED asmVars
    /\ UNCHANGED otherVars

\* ToGltfDoc entered with optimizeModel's result (writeGltf): the locals are
\* initialised
ToGltfDocEnter ==
    /\ pc = "optimized"
    /\ pc' = "loop"
    /\ meshPos' = 1
    /\ outBuf' = <<>>
    /\ gltfBufferViews' = <<>>
    /\ gltfAccessors' = <<>>
    /\ gltfMaterials' = <<>>
    /\ associations' = <<>>
    /\ alignFault' = FALSE
    /\ UNCHANGED <<vertexColors, meshes, piped, model, atlas, gltfDoc>>
    /\ UNCHANGED otherVars

\* ToGltfDoc entered with the caller's Model as it is (no consolidation, an
\* empty atlas buffer)
ToGltfDocEnterDirect ==
    /\ pc = "start"
    /\ pc' = "loop"
    /\ model' = meshes
    /\ atlas' = <<>>
    /\ meshPos' = 1
    /\ outBuf' = <<>>
    /\ gltfBufferViews' = <<>>
    /\ gltfAccessors' = <<>>
    /\ gltfMaterials' = <<>>
    /\ associations' = <<>>
    /\ alignFault' = FALSE
    /\ UNCHANGED <<vertexColors, meshes, piped, gltfDoc>>
    /\ UNCHANGED otherVars

\* one iteration of "for _, mesh := range model.Meshes"
ToGltfDocMesh ==
    /\ pc = "loop"
    /\ meshPos <= Len(model.Meshes)
    /\ LET r == MeshIteration([outBuf |-> outBuf, gltfBufferViews |-> gltfBufferViews,
                               gltfAccessors |-> gltfAccessors],
                              gltfMaterials, model.Meshes[meshPos], vertexColors)
       IN  /\ outBuf' = r.outBuf
           /\ gltfBufferViews' = r.gltfBufferViews
           /\ gltfAccessors' = r.gltfAccessors
           /\ gltfMaterials' = r.gltfMaterials
           /\ associations' = Append(associations, r.assoc)
           /\ alignFault' = (alignFault \/ r.misaligned)
    /\ meshPos' = meshPos + 1
    /\ UNCHANGED <<vertexColors, pc, meshes, piped, model, atlas, gltfDoc>>
    /\ UNCHANGED otherVars

\* the loop is over: the document is assembled and returned
ToGltfDocReturn ==
    /\ pc = "loop"
    /\ meshPos > Len(model.Meshes)
    /\ gltfDoc' = <<AssembleDoc(outBuf, gltfBufferViews, gltfAccessors, gltfMaterials,
                                associations, atlas, vertexColors)>>
    /\ pc' = "done"
    /\ UNCHANGED <<vertexColors, meshes, piped, model, atlas>>
    /\ UNCHANGED asmVars
    /\ UNCHANGED otherVars

Next ==
    \/ OptimizeModel
    \/ ToGltfDocEnter
    \/ ToGltfDocEnterDirect
    \/ ToGltfDocMesh
    \/ ToGltfDocReturn

Spec == Init /\ [][Next]_vars

\* ------------------------------------------------------------------------
\* The mesh consolidator on its own: one call of optimizeModel in either mode
\* ------------------------------------------------------------------------
NextOpt == OptimizeModel

SpecOpt == Init /\ [][NextOpt]_vars

\* ------------------------------------------------------------------------
\* The material deduplicator on its own: any sequence of addMaterial calls
\* on a list that starts empty
\* ------------------------------------------------------------------------
MaterialArgs ==
    { GltfMaterial("", <<One, One, One, One>>, NilTexture, 0, 0),
      GltfMaterial("BLEND", <<One, One, One, One>>, IndexTexture, 0, 0),
      GltfMaterial("", <<One, One, One, One \div 2>>, NilTexture, 0, 0),
      GltfMaterial("", <<0, One, One, One>>, NilTexture, 0, 0),
      GltfMaterial("", <<One, One, One, One>>, NilTexture, One, 0),
      GltfMaterial("BLEND", <<One, One, One, One>>, NilTexture, 0, One \div 2) }

pipeVars == <<vertexColors, meshes, piped, model, atlas, meshPos, outBuf,
              gltfBufferViews, gltfAccessors, associations, alignFault, gltfDoc, opt>>

InitIdle ==
    /\ vertexColors = TRUE
    /\ meshes = NoModel
    /\ piped = FALSE
    /\ model = NoModel
    /\ atlas = <<>>
    /\ meshPos = 0
    /\ outBuf = <<>>
    /\ gltfBufferViews = <<>>
    /\ gltfAccessors = <<>>
    /\ associations = <<>>
    /\ alignFault = FALSE
    /\ gltfDoc = <<>>
    /\ opt = <<>>

InitMat ==
    /\ InitIdle
    /\ pc = "materials"
    /\ gltfMaterials = <<>>
    /\ call = <<>>
    /\ serIn = <<>>
    /\ outData = <<>>
    /\ printed = <<>>

\* materialIndex, gltfMaterials = addMaterial(material, gltfMaterials)
AddMaterial ==
    /\ pc = "materials"
    /\ \E material \in MaterialArgs :
          LET r == addMaterial(material, gltfMaterials)
          IN  /\ gltfMaterials' = r.newMaterials
              /\ call' = <<[material |-> material, materialIndex |-> r.materialIndex,
                            before |-> gltfMaterials]>>
    /\ UNCHANGED <<pc, serIn, outData, printed>>
    /\ UNCHANGED pipeVars

NextMat == AddMaterial

SpecMat == InitMat /\ [][NextMat]_vars

\* ------------------------------------------------------------------------
\* The binary serializer on its own: documents are drawn by the two lengths
\* the function reads, the length of the JSON text and of Buffers[0].Bytes
\* ------------------------------------------------------------------------
HighLimbs == {0, 65535, 65536}
BufLengthPool ==
    {Len64(hi, lo) : hi \in HighLimbs, lo \in (0..MaxLow) \cup {65532 + d : d \in 0..3}}

\* the JSON text of a document has some hundreds of bytes at least
JsonLengthPool ==
    {Len64(hi, lo) : hi \in HighLimbs, lo \in {512 + d : d \in 0..MaxLow}}

\* the argument of a serializer call: the length of the JSON text of the
\* document, the length of Buffers[0].Bytes, and whether the encoder fails on
\* the document (it does on a NaN or an infinity, e.g. in an accessor bound)
InitSer ==
    /\ InitIdle
    /\ pc = "serialize"
    /\ gltfMaterials = <<>>
    /\ call = <<>>
    /\ serIn \in {[jsonLen |-> j, bufLen |-> b, marshalErr |-> e] :
                    j \in JsonLengthPool, b \in BufLengthPool, e \in BOOLEAN}
    /\ outData = <<>>
    /\ printed = <<>>

\* outJSON, _ := json.Marshal(gltfDoc): nil when the encoder fails
MarshalLen(in) == IF in.marshalErr THEN ToLen64(0) ELSE in.jsonLen

\* outData := SerializeBinaryGlTF(gltfDoc)
SerializeBinary ==
    /\ pc = "serialize"
    /\ outData' = SerializeBinaryGlTF(MarshalLen(serIn), serIn.bufLen)
    /\ pc' = "serialized"
    /\ UNCHANGED <<gltfMaterials, call, serIn, printed>>
    /\ UNCHANGED pipeVars

\* outData := SerializeEmbeddedGlTF(gltfDoc): the text of json.MarshalIndent,
\* nil when it fails, after printIf(err != nil, "couldn't marshal json.")
SerializeEmbedded ==
    /\ pc = "serialize"
    /\ outData' = IF serIn.marshalErr THEN <<>>
                  ELSE <<Segment("json", serIn.jsonLen, <<>>)>>
    /\ printed' = IF serIn.marshalErr THEN Append(printed, "couldn't marshal json.")
                  ELSE printed
    /\ pc' = "embedded"
    /\ UNCHANGED <<gltfMaterials, call, serIn>>
    /\ UNCHANGED pipeVars

NextSer ==
    \/ SerializeBinary
    \/ SerializeEmbedded

SpecSer == InitSer /\ [][NextSer]_vars

\* ------------------------------------------------------------------------
\* The atlas loop of optimizeModel, one source mesh per step, on Models of
\* two meshes and of more meshes than the raster has pixels
\* ------------------------------------------------------------------------
MaxAtlasMeshes == 1030

AtlasModelPool ==
    {Model([k \in 1..n |-> SampleMesh(((a + k) % 2) + 1, 1 + (k % 2), k % 2)]) :
        a \in Variants, n \in {2, MaxAtlasMeshes}}

InitAtlas ==
    /\ vertexColors = FALSE
    /\ meshes \in AtlasModelPool
    /\ pc = "start"
    /\ piped = FALSE
    /\ model = NoModel
    /\ atlas = <<>>
    /\ meshPos = 0
    /\ outBuf = <<>>
    /\ gltfBufferViews = <<>>
    /\ gltfAccessors = <<>>
    /\ gltfMaterials = <<>>
    /\ associations = <<>>
    /\ alignFault = FALSE
    /\ gltfDoc = <<>>
    /\ call = <<>>
    /\ serIn = <<>>
    /\ outData = <<>>
    /\ opt = <<>>
    /\ printed = <<>>

atlasFrame == <<vertexColors, meshes, meshPos, outBuf, gltfBufferViews, gltfAccessors,
                gltfMaterials, associations, alignFault, gltfDoc, call, serIn, outData,
                printed>>

\* optimizeModel entered in atlas mode: empty lists and a blank 32x32 raster
AtlasEnter ==
    /\ pc = "start"
    /\ ~vertexColors
    /\ pc' = "atlas"
    /\ opt' = <<[i |-> 0, finalVertices |-> <<>>, finalFaces |-> <<>>, img |-> {}]>>
    /\ UNCHANGED <<piped, model, atlas>>
    /\ UNCHANGED atlasFrame

\* one iteration of "for i, mesh := range meshes.Meshes"
AtlasMesh ==
    /\ pc = "atlas"
    /\ opt[1].i < Len(meshes.Meshes)
    /\ LET i == opt[1].i
           mesh == meshes.Meshes[i + 1]
           vertexOffset == Len(opt[1].finalVertices)
       IN  opt' = <<[i |-> i + 1,
                     finalVertices |-> opt[1].finalVertices \o AtlasVertices(mesh.Vertices, i),
                     finalFaces |-> opt[1].finalFaces \o OffsetFaces(mesh.Faces, vertexOffset),
                     img |-> AtlasPixel(opt[1].img, mesh, i)]>>
    /\ UNCHANGED <<pc, piped, model, atlas>>
    /\ UNCHANGED atlasFrame

\* the loop is over: the raster is encoded and the consolidated Model returned
AtlasReturn ==
    /\ pc = "atlas"
    /\ opt[1].i >= Len(meshes.Meshes)
    /\ model' = Model(<<Geometry(opt[1].finalVertices, opt[1].finalFaces,
                                 PlaceholderMaterial)>>)
    /\ atlas' = PngEncode(opt[1].img)
    /\ piped' = TRUE
    /\ pc' = "optimized"
    /\ UNCHANGED opt
    /\ UNCHANGED atlasFrame

NextAtlas ==
    \/ AtlasEnter
    \/ AtlasMesh
    \/ AtlasReturn

SpecAtlas == InitAtlas /\ [][NextAtlas]_vars

\* ------------------------------------------------------------------------
\* ToGltfDoc called on a Model of several meshes as it is, the meshes
\* differing in material only
\* ------------------------------------------------------------------------
MaxAsmMeshes == 3

AsmMaterialPool ==
    {Material(<<0, 0, 0>>, d, <<0, 0, 0>>, p, <<0, 0, 0>>, o) :
        d \in {<<One, 0, 0>>, <<0, One \div 2, One>>},
        p \in {0, 64 * One},
        o \in {One, One \div 2}}

AsmMeshPool == {[SampleMesh(1, 1, 1) EXCEPT !.Material = m] : m \in AsmMaterialPool}

AsmModelPool == {Model(ms) : ms \in SeqsUpTo(AsmMeshPool, MaxAsmMeshes)}

InitAsm ==
    /\ vertexColors \in BOOLEAN
    /\ meshes \in AsmModelPool
    /\ pc = "start"
    /\ piped = FALSE
    /\ model = NoModel
    /\ atlas = <<>>
    /\ meshPos = 0
    /\ outBuf = <<>>
    /\ gltfBufferViews = <<>>
    /\ gltfAccessors = <<>>
    /\ gltfMaterials = <<>>
    /\ associations = <<>>
    /\ alignFault = FALSE
    /\ gltfDoc = <<>>
    /\ call = <<>>
    /\ serIn = <<>>
    /\ outData = <<>>
    /\ opt = <<>>
    /\ printed = <<>>

NextAsm ==
    \/ ToGltfDocEnterDirect
    \/ ToGltfDocMesh
    \/ ToGltfDocReturn

SpecAsm == InitAsm /\ [][NextAsm]_vars

\* ------------------------------------------------------------------------
\* The pipeline of main and writeGltf followed by the serializers, which a
\* caller may apply to the document in any order
\* ------------------------------------------------------------------------
\* SerializeEmbeddedGlTF(gltfDoc)
SerializeEmbeddedDoc ==
    /\ pc = "done"
    /\ LET r == SerializeEmbeddedGlTF(gltfDoc[1])
       IN  /\ gltfDoc' = <<r.doc>>
           /\ outData' = <<r.out>>
    /\ UNCHANGED <<vertexColors, pc, meshes, piped, model, atlas, call, serIn, opt,
                   printed>>
    /\ UNCHANGED asmVars

\* SerializeBinaryGlTF(gltfDoc)
SerializeBinaryDoc ==
    /\ pc = "done"
    /\ outData' = <<BinaryOf(gltfDoc[1])>>
    /\ UNCHANGED <<vertexColors, pc, meshes, piped, model, atlas, gltfDoc, call, serIn,
                   opt, printed>>
    /\ UNCHANGED asmVars

NextDoc ==
    \/ OptimizeModel
    \/ ToGltfDocEnter
    \/ ToGltfDocMesh
    \/ ToGltfDocReturn
    \/ SerializeEmbeddedDoc
    \/ SerializeBinaryDoc

SpecDoc == Init /\ [][NextDoc]_vars


\* ========================================================================
\* Properties
\* ========================================================================
\* ---- helpers of the properties -----------------------------------------
Doc == gltfDoc[1]

RECURSIVE SumLens(_, _)
SumLens(segs, k) ==
    IF k > Len(segs) THEN ToLen64(0) ELSE Add64(segs[k].len, SumLens(segs, k + 1))

\* the number of bytes SerializeBinaryGlTF returned
ActualBytes == SumLens(outData, 1)

Seg(name) == outData[CHOOSE k \in 1..Len(outData) : outData[k].seg = name]

\* the lengths a buffer assembled by ToGltfDoc can have: 12 bytes for each
\* triangle and 40 (vertex colors) or 32 (atlas) bytes for each vertex
AssembledLen(b) ==
    /\ b.lo % 4 = 0
    /\ LET q == b.hi * 16384 + b.lo \div 4
       IN  \E v \in 0..2, per \in {8, 10} : q >= per * v /\ (q - per * v) % 3 = 0

\* C1: in the bytes returned by SerializeBinaryGlTF for an assembled document
\* (a buffer ToGltfDoc can build, a JSON text that was encoded) the
\* total-length field equals the number of bytes returned, which is
\* 28 + Ljson + Lbin, and each chunk's declared length equals the payload
\* bytes (content plus padding) written for it.
C1_TotalLengthIsActualSize ==
    (pc = "serialized" /\ AssembledLen(serIn.bufLen) /\ ~serIn.marshalErr) =>
        /\ Seg("glbSize").val[1] = ActualBytes
        /\ ActualBytes = Add64(ToLen64(28), Add64(Seg("jsonSize").val[1], Seg("binSize").val[1]))
        /\ Seg("jsonSize").val[1] = Add64(Seg("json").len, Seg("jsonPad").len)
        /\ Seg("binSize").val[1] = Add64(Seg("bin").len, Seg("binPad").len)

\* C2: the padding of either chunk is the smallest p >= 0 that makes
\* length + p a multiple of 4: it is in 0..3, it is 0 for an aligned length,
\* and both declared chunk lengths are multiples of 4.
SmallestPad(n, pad) ==
    /\ pad.hi = 0
    /\ pad.lo \in 0..3
    /\ (n.lo + pad.lo) % 4 = 0
    /\ \A p \in 0..3 : (n.lo + p) % 4 = 0 => pad.lo <= p
    /\ (n.lo % 4 = 0) => pad.lo = 0

C2_PaddingAlignsChunks ==
    pc = "serialized" =>
        /\ SmallestPad(MarshalLen(serIn), Seg("jsonPad").len)
        /\ SmallestPad(serIn.bufLen, Seg("binPad").len)
        /\ Seg("jsonSize").val[1].lo % 4 = 0
        /\ Seg("binSize").val[1].lo % 4 = 0

C2_Witness ==
    /\ pc = "serialized"
    /\ ~serIn.marshalErr
    /\ serIn.jsonLen.lo % 4 = 1
    /\ serIn.bufLen.lo % 4 = 2
    /\ Seg("jsonPad").len = ToLen64(3)
    /\ Seg("binPad").len = ToLen64(2)

\* C3: the BufferViews, in list order, tile the buffer: the first starts at
\* 0, each next one starts where the previous ends, no two overlap, and the
\* buffer's length is the sum of their lengths.
RECURSIVE SumByteLength(_, _)
SumByteLength(views, k) ==
    IF k > Len(views) THEN 0 ELSE views[k].ByteLength + SumByteLength(views, k + 1)

Tiles(views, byteLength) ==
    /\ Len(views) > 0 => views[1].ByteOffset = 0
    /\ \A i \in 1..(Len(views) - 1) :
          views[i + 1].ByteOffset = views[i].ByteOffset + views[i].ByteLength
    /\ \A i, j \in 1..Len(views) :
          i < j => views[i].ByteOffset + views[i].ByteLength <= views[j].ByteOffset
    /\ \A i \in 1..Len(views) :
          /\ views[i].ByteOffset >= 0
          /\ views[i].ByteLength >= 0
          /\ views[i].ByteOffset + views[i].ByteLength <= byteLength
    /\ byteLength = SumByteLength(views, 1)

C3_BufferViewsTileBuffer ==
    /\ pc = "loop" => Tiles(gltfBufferViews, Len(outBuf))
    /\ pc = "done" =>
          /\ Tiles(Doc.BufferViews, Doc.Buffers[1].ByteLength)
          /\ Doc.Buffers[1].ByteLength = Len(Doc.Buffers[1].Bytes)

C3_Witness ==
    /\ pc = "done"
    /\ Len(Doc.BufferViews) = 8
    /\ \A i \in 1..8 : Doc.BufferViews[i].ByteLength > 0
    /\ Doc.BufferViews[8].ByteOffset > Doc.BufferViews[5].ByteOffset

\* C4: after every pack operation the buffer length is a multiple of 4, so
\* every BufferView starts at a multiple of 4 and the alignment branch of
\* ToGltfDoc is never taken.
Aligned(views) ==
    \A i \in 1..Len(views) :
        /\ views[i].ByteOffset % 4 = 0
        /\ (views[i].ByteOffset + views[i].ByteLength) % 4 = 0

C4_BufferStaysAligned ==
    /\ Len(outBuf) % 4 = 0
    /\ Aligned(gltfBufferViews)
    /\ ~alignFault
    /\ pc = "done" => Aligned(Doc.BufferViews) /\ Len(Doc.Buffers[1].Bytes) % 4 = 0

C4_Witness ==
    /\ pc = "done"
    /\ Len(model.Meshes) = 1
    /\ Len(model.Meshes[1].Faces) = 1
    /\ Len(model.Meshes[1].Vertices) = 1
    /\ Len(Doc.Buffers[1].Bytes) > 0

\* C5: optimizeModel returns exactly one mesh, with as many vertices as the
\* source meshes have together and as many triangles as they have together.
RECURSIVE CountVertices(_, _)
CountVertices(ms, n) ==
    IF n = 0 THEN 0 ELSE Len(ms[n].Vertices) + CountVertices(ms, n - 1)

RECURSIVE CountFaces(_, _)
CountFaces(ms, n) ==
    IF n = 0 THEN 0 ELSE Len(ms[n].Faces) + CountFaces(ms, n - 1)

C5_ConsolidatedCounts ==
    pc = "optimized" =>
        /\ Len(model.Meshes) = 1
        /\ Len(model.Meshes[1].Vertices) = CountVertices(meshes.Meshes, Len(meshes.Meshes))
        /\ Len(model.Meshes[1].Faces) = CountFaces(meshes.Meshes, Len(meshes.Meshes))

C5_Witness ==
    /\ pc = "optimized"
    /\ Len(meshes.Meshes) = 2
    /\ Len(meshes.Meshes[1].Vertices) = 2
    /\ Len(meshes.Meshes[2].Vertices) = 1
    /\ Len(meshes.Meshes[1].Faces) = 1
    /\ Len(meshes.Meshes[2].Faces) = 1
    /\ Len(model.Meshes[1].Vertices) = 3
    /\ Len(model.Meshes[1].Faces) = 2

\* C6: vertices and triangles are appended in source-mesh order and each
\* index of a triangle of source mesh k is increased by the vertex count of
\* the source meshes before k; so when every source index is a valid index
\* of its own mesh, every consolidated index is below the consolidated
\* vertex count and points at the vertex the source index pointed at.
ValidIndices(ms) ==
    \A k \in 1..Len(ms) : \A j \in 1..Len(ms[k].Faces) : \A c \in 1..3 :
        /\ ms[k].Faces[j].TriangleIndices[c] >= 0
        /\ ms[k].Faces[j].TriangleIndices[c] < Len(ms[k].Vertices)

C6_OffsetsPreserveReferences ==
    pc = "optimized" =>
        LET src == meshes.Meshes
            out == model.Meshes[1]
        IN  /\ \A k \in 1..Len(src) : \A j \in 1..Len(src[k].Vertices) :
                 LET v == out.Vertices[CountVertices(src, k - 1) + j]
                 IN  /\ v.Position = src[k].Vertices[j].Position
                     /\ v.Normal = src[k].Vertices[j].Normal
            /\ \A k \in 1..Len(src) : \A j \in 1..Len(src[k].Faces) : \A c \in 1..3 :
                 out.Faces[CountFaces(src, k - 1) + j].TriangleIndices[c]
                    = src[k].Faces[j].TriangleIndices[c] + CountVertices(src, k - 1)
            /\ ValidIndices(src) =>
                 \A k \in 1..Len(src) : \A j \in 1..Len(src[k].Faces) : \A c \in 1..3 :
                    LET i == out.Faces[CountFaces(src, k - 1) + j].TriangleIndices[c]
                        s == src[k].Vertices[src[k].Faces[j].TriangleIndices[c] + 1]
                    IN  /\ i >= 0
                        /\ i < Len(out.Vertices)
                        /\ out.Vertices[i + 1].Position = s.Position
                        /\ out.Vertices[i + 1].Normal = s.Normal

C6_Witness ==
    /\ pc = "optimized"
    /\ Len(meshes.Meshes) = 2
    /\ ValidIndices(meshes.Meshes)
    /\ Len(meshes.Meshes[1].Vertices) = 2
    /\ Len(meshes.Meshes[1].Faces) = 1
    /\ Len(meshes.Meshes[2].Faces) = 1
    /\ model.Meshes[1].Faces[2].TriangleIndices = <<2, 3, 2>>

\* C7: for every packed 2-, 3- or 4-component accessor and every component
\* i, min[i] <= the component i of every packed element <= max[i].
\* The elements are read back from the bytes of the accessor's BufferView.
Decode32(bytes, at) ==
    bytes[at + 1] + 256 * bytes[at + 2] + 65536 * bytes[at + 3]
        + 16777216 * (IF bytes[at + 4] >= 128 THEN bytes[at + 4] - 256 ELSE bytes[at + 4])

BoundsHold(accs, views, bytes) ==
    \A a \in 1..Len(accs) :
        accs[a].Type \in {"VEC2", "VEC3", "VEC4"} =>
            LET view == views[accs[a].BufferView + 1]
            IN  \A e \in 0..(accs[a].Count - 1) : \A i \in 1..(view.ByteStride \div 4) :
                    LET x == Decode32(bytes, view.ByteOffset + e * view.ByteStride + 4 * (i - 1))
                    IN  accs[a].Min[i] <= x /\ x <= accs[a].Max[i]

C7_BoundsEncloseElements ==
    /\ pc = "loop" => BoundsHold(gltfAccessors, gltfBufferViews, outBuf)
    /\ pc = "done" => BoundsHold(Doc.Accessors, Doc.BufferViews, Doc.Buffers[1].Bytes)

C7_Witness ==
    /\ pc = "done"
    /\ \E a \in 1..Len(Doc.Accessors) :
          /\ Doc.Accessors[a].Type = "VEC3"
          /\ Doc.Accessors[a].Count = 2
          /\ Doc.Accessors[a].Min[1] = 100 * One
          /\ Doc.Accessors[a].Max[1] = 300 * One
          /\ Doc.Accessors[a].Min[2] = (0 - 150) * One
    /\ \E a \in 1..Len(Doc.Accessors) :
          /\ Doc.Accessors[a].Type = "VEC4"
          /\ Doc.Accessors[a].Count = 2
          /\ Doc.Accessors[a].Min[1] < Doc.Accessors[a].Max[1]


\* C8: from an empty list, after any sequence of addMaterial calls no two
\* entries agree on (baseColorFactor, metallicFactor, roughnessFactor); a
\* call returns the index of the first entry that agrees with its argument
\* on that key; the list before the call is a prefix of the list after it;
\* and the list grows by one exactly when no entry matched.
Key(m) ==
    <<m.PbrMetallicRoughness.BaseColorFactor, m.PbrMetallicRoughness.MetallicFactor,
      m.PbrMetallicRoughness.RoughnessFactor>>

C8_MaterialListIsDeduplicated ==
    /\ \A i, j \in 1..Len(gltfMaterials) :
          i < j => Key(gltfMaterials[i]) # Key(gltfMaterials[j])
    /\ call # <<>> =>
          LET c == call[1]
              matched == \E i \in 1..Len(c.before) : Key(c.before[i]) = Key(c.material)
          IN  /\ c.materialIndex \in 0..(Len(gltfMaterials) - 1)
              /\ Key(gltfMaterials[c.materialIndex + 1]) = Key(c.material)
              /\ \A i \in 1..c.materialIndex : Key(gltfMaterials[i]) # Key(c.material)
              /\ Len(c.before) <= Len(gltfMaterials)
              /\ SubSeq(gltfMaterials, 1, Len(c.before)) = c.before
              /\ matched => gltfMaterials = c.before
              /\ ~matched => gltfMaterials = Append(c.before, c.material)

C8_Witness ==
    /\ call # <<>>
    /\ Len(gltfMaterials) = 4
    /\ call[1].materialIndex = 1
    /\ call[1].material # gltfMaterials[2]
    /\ call[1].before = gltfMaterials

\* C9: optimizeModel followed by ToGltfDoc yields a document with exactly
\* one mesh holding one primitive, one node whose mesh is 0, one scene whose
\* node list is [0], root scene 0, one buffer, one material, four accessors
\* and four buffer views.
C9_PipelineDocumentShape ==
    (pc = "done" /\ piped) =>
        /\ Len(Doc.Meshes) = 1
        /\ Len(Doc.Meshes[1].Primitives) = 1
        /\ Len(Doc.Nodes) = 1
        /\ Doc.Nodes[1].Mesh = 0
        /\ Len(Doc.Scenes) = 1
        /\ Doc.Scenes[1].Nodes = <<0>>
        /\ Doc.Scene = 0
        /\ Len(Doc.Buffers) = 1
        /\ Len(Doc.Materials) = 1
        /\ Len(Doc.Accessors) = 4
        /\ Len(Doc.BufferViews) = 4

C9_Witness ==
    /\ pc = "done"
    /\ piped
    /\ Len(meshes.Meshes) = 2
    /\ meshes.Meshes[1].Material # meshes.Meshes[2].Material
    /\ Len(Doc.Buffers[1].Bytes) > 0

\* C10: each primitive has exactly the attributes POSITION, NORMAL and
\* COLOR_0 (vertex colors) or POSITION, NORMAL and TEXCOORD_0 (atlas); its
\* references resolve to accessors of the right type and count and to an
\* existing material; the atlas document has one image, one texture with
\* source 0 and materials with base-color-texture index 0, the vertex-color
\* document has no image, no texture and no base-color texture.
AccessorIs(doc, index, type, count) ==
    /\ index \in 0..(Len(doc.Accessors) - 1)
    /\ doc.Accessors[index + 1].Type = type
    /\ doc.Accessors[index + 1].Count = count

C10_PrimitiveReferencesResolve ==
    pc = "done" =>
        /\ Len(Doc.Meshes[1].Primitives) = Len(model.Meshes)
        /\ \A j \in 1..Len(Doc.Meshes[1].Primitives) :
              LET p == Doc.Meshes[1].Primitives[j]
                  nv == Len(model.Meshes[j].Vertices)
                  nf == Len(model.Meshes[j].Faces)
              IN  /\ DOMAIN p.Attributes =
                        IF vertexColors THEN {"POSITION", "NORMAL", "COLOR_0"}
                                        ELSE {"POSITION", "NORMAL", "TEXCOORD_0"}
                  /\ AccessorIs(Doc, p.Indices, "SCALAR", 3 * nf)
                  /\ AccessorIs(Doc, p.Attributes["POSITION"], "VEC3", nv)
                  /\ AccessorIs(Doc, p.Attributes["NORMAL"], "VEC3", nv)
                  /\ vertexColors => AccessorIs(Doc, p.Attributes["COLOR_0"], "VEC4", nv)
                  /\ ~vertexColors => AccessorIs(Doc, p.Attributes["TEXCOORD_0"], "VEC2", nv)
                  /\ p.Material \in 0..(Len(Doc.Materials) - 1)
                  /\ Doc.Materials[p.Material + 1].PbrMetallicRoughness.BaseColorTexture =
                        IF vertexColors THEN NilTexture ELSE IndexTexture
        /\ ~vertexColors =>
              /\ Len(Doc.Images) = 1
              /\ Len(Doc.Textures) = 1
              /\ Doc.Textures[1].Source = 0
        /\ vertexColors =>
              /\ Doc.Images = <<>>
              /\ Doc.Textures = <<>>
              /\ \A m \in 1..Len(Doc.Materials) :
                    Doc.Materials[m].PbrMetallicRoughness.BaseColorTexture = NilTexture

C10_Witness ==
    /\ pc = "done"
    /\ ~vertexColors
    /\ Len(Doc.Meshes[1].Primitives) = 2
    /\ Doc.Meshes[1].Primitives[2].Attributes["TEXCOORD_0"] = 7
    /\ Doc.Meshes[1].Primitives[2].Material = 1
    /\ Doc.Accessors[8].Count = 2


\* C11: the serializers leave every field of the caller's document as
\* ToGltfDoc returned it, so SerializeBinaryGlTF returns the same bytes
\* whether or not SerializeEmbeddedGlTF was called on the document before.
AssembledDoc ==
    AssembleDoc(outBuf, gltfBufferViews, gltfAccessors, gltfMaterials, associations,
                atlas, vertexColors)

C11_SerializersLeaveDocumentUnchanged ==
    pc = "done" =>
        /\ Doc = AssembledDoc
        /\ (outData # <<>> /\ outData[1].form = "glb") => outData[1] = BinaryOf(AssembledDoc)


\* C12: in vertex-color mode every consolidated vertex has R, G and B equal
\* to 0.04 + 0.81 x the source channel, without clamping, and the alpha,
\* position, normal and UV of its source vertex; the atlas buffer returned
\* is empty, and the caller's Model is the same before and after.
RECURSIVE SourceVertices(_, _)
SourceVertices(ms, k) ==
    IF k > Len(ms) THEN <<>> ELSE ms[k].Vertices \o SourceVertices(ms, k + 1)

Affine(out, src) == 100 * out = 4 * One + 81 * src

VertexRemapped(out, src) ==
    /\ Affine(out.Color.R, src.Color.R)
    /\ Affine(out.Color.G, src.Color.G)
    /\ Affine(out.Color.B, src.Color.B)
    /\ out.Color.A = src.Color.A
    /\ out.Position = src.Position
    /\ out.Normal = src.Normal
    /\ out.UV = src.UV

ColorsRemapped ==
    (piped /\ vertexColors) =>
        LET src == SourceVertices(meshes.Meshes, 1)
            out == model.Meshes[1].Vertices
        IN  /\ Len(out) = Len(src)
            /\ \A j \in 1..Len(src) : VertexRemapped(out[j], src[j])
            /\ atlas = <<>>

C12_VertexColorsRemapped == []ColorsRemapped /\ [][meshes' = meshes]_vars

C12_Witness ==
    /\ piped
    /\ vertexColors
    /\ \E j \in 1..Len(model.Meshes[1].Vertices) :
          /\ model.Meshes[1].Vertices[j].Color.R > One
          /\ model.Meshes[1].Vertices[j].Color.B < 0
    /\ \E j \in 1..Len(model.Meshes[1].Vertices) :
          model.Meshes[1].Vertices[j].Color.G = (4 * One) \div 100


\* C13: in atlas mode the pixel of source mesh i < 1024 is written at
\* (i mod 32, i div 32), inside the raster, no two such meshes share a
\* pixel, and every vertex of mesh i gets the centre of that pixel as UV,
\* strictly between 0 and 1; two meshes give the pixels (0,0) and (1,0).
PixelAt(img, x, y) == {p \in img : p.x = x /\ p.y = y}

PixelColor(mesh) ==
    <<Uint8Of255(Remap(mesh.Material.DiffuseColor[1])),
      Uint8Of255(Remap(mesh.Material.DiffuseColor[2])),
      Uint8Of255(Remap(mesh.Material.DiffuseColor[3])),
      Uint8Of255(mesh.Material.Opacity)>>

Below1024(n) == IF n < 1024 THEN n ELSE 1024

AtlasPixelsPlaced ==
    pc = "atlas" =>
        /\ \A i \in 0..(Below1024(opt[1].i) - 1) :
              /\ i % 32 \in 0..31
              /\ i \div 32 \in 0..31
              /\ \E p \in PixelAt(opt[1].img, i % 32, i \div 32) :
                    p.c = PixelColor(meshes.Meshes[i + 1])
        /\ Cardinality({<<p.x, p.y>> : p \in opt[1].img}) = Below1024(opt[1].i)
        /\ opt[1].i = 2 => {<<p.x, p.y>> : p \in opt[1].img} = {<<0, 0>>, <<1, 0>>}

IsPixelCentre(uv, i) ==
    /\ 64 * uv.U = (2 * (i % 32) + 1) * One
    /\ 64 * uv.V = (2 * (i \div 32) + 1) * One
    /\ uv.U > 0 /\ uv.U < One
    /\ uv.V > 0 /\ uv.V < One

AtlasUVStep ==
    (pc = "atlas" /\ pc' = "atlas" /\ opt[1].i < 1024) =>
        /\ Len(opt'[1].finalVertices) =
               Len(opt[1].finalVertices) + Len(meshes.Meshes[opt[1].i + 1].Vertices)
        /\ \A j \in (Len(opt[1].finalVertices) + 1)..Len(opt'[1].finalVertices) :
              IsPixelCentre(opt'[1].finalVertices[j].UV, opt[1].i)

C13_AtlasPixelAndUV == []AtlasPixelsPlaced /\ [][AtlasUVStep]_vars

C13_Witness ==
    /\ pc = "atlas"
    /\ opt[1].i = 64
    /\ PixelAt(opt[1].img, 31, 1) # {}
    /\ PixelAt(opt[1].img, 1, 0) # {}
    /\ \E j \in 1..Len(opt[1].finalVertices) : IsPixelCentre(opt[1].finalVertices[j].UV, 63)


\* the packed elements of vector accessor a, component i, read back from the
\* buffer
Packed(a, i) ==
    LET view == gltfBufferViews[gltfAccessors[a].BufferView + 1]
    IN  [e \in 1..gltfAccessors[a].Count |->
            Decode32(outBuf, view.ByteOffset + (e - 1) * view.ByteStride + 4 * (i - 1))]

TrueMin(xs) == CHOOSE m \in {xs[e] : e \in 1..Len(xs)} : \A e \in 1..Len(xs) : m <= xs[e]
TrueMax(xs) == CHOOSE m \in {xs[e] : e \in 1..Len(xs)} : \A e \in 1..Len(xs) : m >= xs[e]

Magnitude(x) == IF x < 0 THEN 0 - x ELSE x

VectorComponents ==
    {<<a, i>> \in (1..Len(gltfAccessors)) \X (1..4) :
        /\ gltfAccessors[a].Type \in {"VEC2", "VEC3", "VEC4"}
        /\ gltfAccessors[a].Count > 0
        /\ i <= Len(gltfAccessors[a].Min)}

\* C14 as stated: whenever a packed vector array contains a component of
\* magnitude >= 100, the reported min or max of that component differs from
\* the true minimum or maximum of the packed elements.
C14_LargeComponentGivesWrongBound ==
    pc \in {"loop", "done"} =>
        \A c \in VectorComponents :
            LET xs == Packed(c[1], c[2])
            IN  (\E e \in 1..Len(xs) : Magnitude(xs[e]) >= 100 * One) =>
                    \/ gltfAccessors[c[1]].Min[c[2]] # TrueMin(xs)
                    \/ gltfAccessors[c[1]].Max[c[2]] # TrueMax(xs)

\* C14, amended: for a non-empty packed vector array the reported min of a
\* component differs from the true minimum exactly when every element's
\* component is above 100, and is then 100; the reported max differs from
\* the true maximum exactly when every element's component is below -100,
\* and is then -100.
C14_WrongBoundExactlyWhenAllBeyondSeed ==
    pc \in {"loop", "done"} =>
        \A c \in VectorComponents :
            LET xs == Packed(c[1], c[2])
                min == gltfAccessors[c[1]].Min[c[2]]
                max == gltfAccessors[c[1]].Max[c[2]]
            IN  /\ min # TrueMin(xs) <=> \A e \in 1..Len(xs) : xs[e] > 100 * One
                /\ min # TrueMin(xs) => min = 100 * One
                /\ max # TrueMax(xs) <=> \A e \in 1..Len(xs) : xs[e] < (0 - 100) * One
                /\ max # TrueMax(xs) => max = (0 - 100) * One

C14_Witness ==
    /\ pc = "done"
    /\ \E c \in VectorComponents :
          /\ gltfAccessors[c[1]].Type = "VEC3"
          /\ c[2] = 1
          /\ Packed(c[1], 1) = <<150 * One, 300 * One>>
          /\ gltfAccessors[c[1]].Min[1] = 100 * One
          /\ Packed(c[1], 2) = <<(0 - 150) * One, (0 - 150) * One>>
          /\ gltfAccessors[c[1]].Max[2] = (0 - 100) * One
          /\ Packed(c[1], 3) = <<100 * One, 100 * One>>
          /\ gltfAccessors[c[1]].Min[3] = 100 * One
          /\ gltfAccessors[c[1]].Max[3] = 100 * One


\* C15: when the JSON encoder fails, SerializeBinaryGlTF still returns a
\* complete container whose JSON chunk has declared length 0 and no payload
\* bytes and whose total-length field equals the bytes returned, 28 + the
\* BIN chunk length; SerializeEmbeddedGlTF returns no bytes after printing
\* one message; neither hands an error to its caller.
SegmentNames == [k \in 1..Len(outData) |-> outData[k].seg]

C15_EncoderFailureGivesEmptyPayload ==
    (serIn # <<>> /\ serIn.marshalErr /\ AssembledLen(serIn.bufLen)) =>
        /\ pc = "serialized" =>
              /\ SegmentNames = <<"magic", "version", "glbSize", "jsonSize", "jsonType",
                                  "json", "jsonPad", "binSize", "binType", "bin", "binPad">>
              /\ Seg("jsonSize").val[1] = ToLen64(0)
              /\ Seg("json").len = ToLen64(0)
              /\ Seg("jsonPad").len = ToLen64(0)
              /\ printed = <<>>
              /\ Seg("glbSize").val[1] = ActualBytes
              /\ ActualBytes = Add64(ToLen64(28), Seg("binSize").val[1])
        /\ pc = "embedded" =>
              /\ outData = <<>>
              /\ printed = <<"couldn't marshal json.">>


\* C16: the materials of the pipeline's output depend on the mode only, not
\* on the input Model: one double-sided material with metallic 0, roughness
\* 0, base color factor (1,1,1,1) and no alpha mode, whatever the opacity
\* and specular power of the source meshes.
PipelineMaterials(vc) ==
    <<[AlphaMode |-> "",
       DoubleSided |-> TRUE,
       PbrMetallicRoughness |->
           [BaseColorFactor |-> <<One, One, One, One>>,
            BaseColorTexture |-> IF vc THEN NilTexture ELSE IndexTexture,
            MetallicFactor |-> 0,
            RoughnessFactor |-> 0]]>>

C16_PipelineMaterialIgnoresInput ==
    (pc = "done" /\ piped) =>
        /\ Doc.Materials = PipelineMaterials(vertexColors)
        /\ gltfMaterials = PipelineMaterials(vertexColors)
        /\ \A k \in 1..Len(associations) : associations[k].MeshMaterialIndex = 0

C16_Witness ==
    /\ pc = "done"
    /\ piped
    /\ Len(meshes.Meshes) = 2
    /\ meshes.Meshes[1].Material.Opacity < One
    /\ meshes.Meshes[1].Material.SpecularPower = 64 * One
    /\ meshes.Meshes[2].Material.Opacity = One
    /\ meshes.Meshes[2].Material.SpecularPower = 0
    /\ Doc.Materials[1].AlphaMode = ""
    /\ Doc.Materials[1].PbrMetallicRoughness.RoughnessFactor = 0


\* C17: ToGltfDoc on a Model of several meshes overwrites every derived
\* material's base color factor with (1,1,1,1) before deduplication: two
\* meshes get the same material index exactly when their specular powers are
\* equal, whatever their diffuse colors and opacities; there are as many
\* materials as distinct specular powers; and an entry keeps the alpha mode
\* of the first mesh that has its specular power.
PowerOf(k) == model.Meshes[k].Material.SpecularPower

FirstWithPower(k) == CHOOSE j \in 1..k : PowerOf(j) = PowerOf(k) /\ \A h \in 1..(j - 1) : PowerOf(h) # PowerOf(k)

AlphaModeOf(k) == IF model.Meshes[k].Material.Opacity < One THEN "BLEND" ELSE ""

C17_MaterialsMergeBySpecularPower ==
    (pc \in {"loop", "done"} /\ ~piped) =>
        LET n == Len(associations)
            index(k) == associations[k].MeshMaterialIndex
        IN  /\ \A m \in 1..Len(gltfMaterials) :
                  gltfMaterials[m].PbrMetallicRoughness.BaseColorFactor = <<One, One, One, One>>
            /\ \A j, k \in 1..n : (PowerOf(j) = PowerOf(k)) <=> (index(j) = index(k))
            /\ Len(gltfMaterials) = Cardinality({PowerOf(k) : k \in 1..n})
            /\ \A k \in 1..n :
                  /\ index(k) \in 0..(Len(gltfMaterials) - 1)
                  /\ gltfMaterials[index(k) + 1].AlphaMode = AlphaModeOf(FirstWithPower(k))
            /\ pc = "done" => Doc.Materials = gltfMaterials

C17_Witness ==
    /\ pc = "done"
    /\ ~piped
    /\ Len(model.Meshes) = 3
    /\ PowerOf(1) = PowerOf(2)
    /\ PowerOf(3) # PowerOf(1)
    /\ model.Meshes[1].Material.DiffuseColor # model.Meshes[2].Material.DiffuseColor
    /\ model.Meshes[1].Material.Opacity = One
    /\ model.Meshes[2].Material.Opacity < One
    /\ associations[1].MeshMaterialIndex = 0
    /\ associations[2].MeshMaterialIndex = 0
    /\ associations[3].MeshMaterialIndex = 1
    /\ Len(Doc.Materials) = 2
    /\ Doc.Materials[1].AlphaMode = ""


\* C18: packing an empty array still appends one BufferView and one
\* Accessor, with byteLength 0 and count 0 and the seeds as bounds (min 100
\* and max -100 in every component of a vector array, min 100 and max 0 for
\* indices), so min > max; for a non-empty array min[i] <= max[i] in every
\* component.
ComponentsOf(type) ==
    IF type = "VEC2" THEN 2 ELSE IF type = "VEC3" THEN 3 ELSE IF type = "VEC4" THEN 4 ELSE 1

SeedBounds(acc) ==
    LET n == ComponentsOf(acc.Type)
    IN  IF acc.Type = "SCALAR"
        THEN acc.Min = <<100>> /\ acc.Max = <<0>>
        ELSE /\ acc.Min = [i \in 1..n |-> 100 * One]
             /\ acc.Max = [i \in 1..n |-> (0 - 100) * One]

C18_EmptyArrayKeepsSeeds ==
    pc \in {"loop", "done"} =>
        /\ Len(gltfAccessors) = 4 * Len(associations)
        /\ Len(gltfBufferViews) = 4 * Len(associations)
        /\ \A a \in 1..Len(gltfAccessors) :
              LET acc == gltfAccessors[a]
                  view == gltfBufferViews[acc.BufferView + 1]
                  n == ComponentsOf(acc.Type)
              IN  /\ acc.BufferView = a - 1
                  /\ Len(acc.Min) = n /\ Len(acc.Max) = n
                  /\ acc.Count = 0 =>
                        /\ view.ByteLength = 0
                        /\ SeedBounds(acc)
                        /\ \A i \in 1..n : acc.Min[i] > acc.Max[i]
                  /\ acc.Count > 0 =>
                        /\ view.ByteLength > 0
                        /\ \A i \in 1..n : acc.Min[i] <= acc.Max[i]

C18_Witness ==
    /\ pc = "done"
    /\ Len(model.Meshes) = 2
    /\ model.Meshes[1].Vertices = <<>>
    /\ model.Meshes[1].Faces = <<>>
    /\ Len(model.Meshes[2].Vertices) = 2
    /\ Len(model.Meshes[2].Faces) = 1
    /\ Len(Doc.Accessors) = 8
    /\ Doc.Accessors[1].Count = 0
    /\ Doc.Accessors[1].Min = <<100>>
    /\ Doc.Accessors[1].Max = <<0>>
    /\ Doc.Accessors[2].Count = 0
    /\ Doc.Accessors[2].Min = <<100 * One, 100 * One, 100 * One>>
    /\ Doc.Accessors[2].Max = <<(0 - 100) * One, (0 - 100) * One, (0 - 100) * One>>
    /\ Doc.BufferViews[2].ByteLength = 0
    /\ Doc.Accessors[6].Count = 2
    /\ Doc.Accessors[6].Min[1] = 100 * One
    /\ Doc.Accessors[6].Max[1] = 300 * One

====
